---- MODULE Spec2Model ----
(***************************************************************************)
(* Model of the debounced event dispatch engine of sherry-sync/demon:      *)
(* src/src/app.rs, get_source_by_path and the debouncer callback of        *)
(* App::listen.  The batch driver is one process whose steps are the       *)
(* await points of the callback; the source workers and the configuration  *)
(* API run beside it, and the file system is what local_path.exists() and  *)
(* revalidate find when they look at it.                                   *)
(***************************************************************************)
EXTENDS Naturals, Sequences, FiniteSets

\* ---------------------------------------------------------------- bounds
MaxBatches == 2
MaxBatchLen == 2
MaxWatchers == 2
MaxApiCalls == 1

\* ------------------------------------------------------------ the domain
SourceIds == {"S1", "S2"}

RootA == <<"a">>
RootAB == <<"a", "b">>
Roots == {RootA, RootAB}

PathAF == <<"a", "f">>
PathABC == <<"a", "b", "c">>
PathZ == <<"z">>
EventPaths == {PathAF, PathABC, PathZ}

NoWatcher == [local_path |-> <<>>, source |-> "none", complete |-> FALSE]
NoWorker == [src |-> "none", batch |-> 0, idx |-> 0]

\* SherryConfigWatcherJSON: local_path, source, complete
WatcherJSON == [local_path : Roots, source : SourceIds, complete : BOOLEAN]

\* the watchers of a SherryConfigJSON: local_path is unique among them
WatcherLists ==
  {ws \in UNION {[1..n -> WatcherJSON] : n \in 0..MaxWatchers} :
     \A j, k \in 1..Len(ws) : j # k => ws[j].local_path # ws[k].local_path}

\* SherryConfigJSON: watchers (ordered) and sources (keyed by source id)
ConfigJSON == [watchers : WatcherLists, sources : SUBSET SourceIds]

\* the raw change events of the debouncer (only their paths matter here): one
\* without a path, one under RootA only, one under both roots, and one whose
\* first path is under no root while its second is under RootA
RawEvents ==
  {[paths |-> <<>>], [paths |-> <<PathAF>>], [paths |-> <<PathABC>>],
   [paths |-> <<PathZ, PathAF>>]}

\* the roots a look at the disk can find: RootAB lies inside RootA
DiskStates == {{}, {RootA}, {RootA, RootAB}}

Batches == UNION {[1..n -> RawEvents] : n \in 0..MaxBatchLen}

\* ----------------------------------------------------------------- state
VARIABLES
  config,            \* the shared SherryConfig behind Arc<Mutex<..>> (its main JSON)
  lock,              \* holder of the config mutex: "free", "driver", "api"
  pc,                \* position of the debouncer callback
  results,           \* the batch being processed
  snap,              \* the local `config` of the callback (the snapshot)
  should_revalidate, \* the local flag of the callback
  i,                 \* index of the event being processed
  map,               \* event_processing_debounce_map: source id -> worker
  fresh,             \* the worker built as the argument of or_insert
  keys,              \* the keys still to visit in the reap sweep
  busy,              \* per source: the worker in the map has work (queued or in flight)
  apiPending,        \* config the API is installing while it holds the lock
  apiCalls,          \* number of API calls so far
  committed,         \* the config as of the last release of the config lock
  batchNo,           \* number of callback invocations so far
  outcomes,          \* per event of this batch: what the loop body did
  sends,             \* the send calls of this batch, in order
  creations,         \* the EventProcessingDebounce::new calls of this batch
  reaps,             \* the is_running answers of this batch's sweep
  revalidations,     \* revalidate calls of this batch
  snapshots,         \* get_main calls of this batch
  trace,             \* the steps of this batch, in order
  prev               \* the previous invocation: what it was given and what it did

vars == <<config, lock, pc, results, snap, should_revalidate, i, map, fresh,
          keys, busy, apiPending, apiCalls, committed, batchNo, outcomes,
          sends, creations, reaps, revalidations, snapshots, trace, prev>>

driverVars == <<pc, results, snap, should_revalidate, i, fresh, keys>>
histVars == <<outcomes, sends, creations, reaps, revalidations, snapshots, trace>>
workerVars == <<busy>>
apiVars == <<apiPending, apiCalls, committed>>

\* ------------------------------------------------------- pure functions
\* Path::starts_with: component-wise prefix
StartsWith(path, base) ==
  /\ Len(base) <= Len(path)
  /\ \A k \in 1..Len(base) : path[k] = base[k]

Min(S) == CHOOSE x \in S : \A y \in S : x <= y

\* get_source_by_path: find_map returns the first watcher, in the order of
\* config.watchers, whose local_path is a prefix of the path
get_source_by_path(cfg, path) ==
  LET hits == {k \in 1..Len(cfg.watchers) : StartsWith(path, cfg.watchers[k].local_path)}
  IN IF hits = {} THEN NoWatcher ELSE cfg.watchers[Min(hits)]

\* the worker EventProcessingDebounce::new(&rt, &app, &source_id) builds when
\* event idx of batch b is processed
NewWorker(source_id, b, idx) == [src |-> source_id, batch |-> b, idx |-> idx]

\* EventProcessingDebounce::is_running: the worker has queued events or an
\* action in flight
is_running(s) == busy[s]

\* mutant of Outcome: local_path.exists() is tested before watcher.complete
OutcomeExistsFirst(cfg, exists, ev) ==
  IF Len(ev.paths) = 0
  THEN [kind |-> "Ignore", source |-> "none", base |-> <<>>]
  ELSE LET watcher == get_source_by_path(cfg, ev.paths[1])
       IN IF watcher = NoWatcher
          THEN [kind |-> "Ignore", source |-> "none", base |-> <<>>]
          ELSE IF ~exists
          THEN [kind |-> "Anomaly", source |-> watcher.source, base |-> watcher.local_path]
          ELSE IF ~watcher.complete
          THEN [kind |-> "Ignore", source |-> watcher.source, base |-> watcher.local_path]
          ELSE IF watcher.source \notin cfg.sources
          THEN [kind |-> "Anomaly", source |-> watcher.source, base |-> watcher.local_path]
          ELSE [kind |-> "Dispatch", source |-> watcher.source, base |-> watcher.local_path]

\* mutant of Outcome: the event is routed by paths.last()
OutcomeLastPath(cfg, exists, ev) ==
  IF Len(ev.paths) = 0
  THEN [kind |-> "Ignore", source |-> "none", base |-> <<>>]
  ELSE LET watcher == get_source_by_path(cfg, ev.paths[Len(ev.paths)])
       IN IF watcher = NoWatcher
          THEN [kind |-> "Ignore", source |-> "none", base |-> <<>>]
          ELSE IF ~watcher.complete
          THEN [kind |-> "Ignore", source |-> watcher.source, base |-> watcher.local_path]
          ELSE IF ~exists
          THEN [kind |-> "Anomaly", source |-> watcher.source, base |-> watcher.local_path]
          ELSE IF watcher.source \notin cfg.sources
          THEN [kind |-> "Anomaly", source |-> watcher.source, base |-> watcher.local_path]
          ELSE [kind |-> "Dispatch", source |-> watcher.source, base |-> watcher.local_path]

\* mutant of Outcome: the lookup of lines 83-87 is left out
OutcomeNoRegistry(cfg, exists, ev) ==
  IF Len(ev.paths) = 0
  THEN [kind |-> "Ignore", source |-> "none", base |-> <<>>]
  ELSE LET watcher == get_source_by_path(cfg, ev.paths[1])
       IN IF watcher = NoWatcher
          THEN [kind |-> "Ignore", source |-> "none", base |-> <<>>]
          ELSE IF ~watcher.complete
          THEN [kind |-> "Ignore", source |-> watcher.source, base |-> watcher.local_path]
          ELSE IF ~exists
          THEN [kind |-> "Anomaly", source |-> watcher.source, base |-> watcher.local_path]
          ELSE [kind |-> "Dispatch", source |-> watcher.source, base |-> watcher.local_path]

\* mutant of Outcome: a source that has an entry in the dispatch table is
\* taken as handled already
OutcomeTableAware(cfg, exists, ev) ==
  IF Len(ev.paths) = 0
  THEN [kind |-> "Ignore", source |-> "none", base |-> <<>>]
  ELSE LET watcher == get_source_by_path(cfg, ev.paths[1])
       IN IF watcher = NoWatcher
          THEN [kind |-> "Ignore", source |-> "none", base |-> <<>>]
          ELSE IF ~watcher.complete
          THEN [kind |-> "Ignore", source |-> watcher.source, base |-> watcher.local_path]
          ELSE IF ~exists
          THEN [kind |-> "Anomaly", source |-> watcher.source, base |-> watcher.local_path]
          ELSE IF watcher.source \notin cfg.sources
          THEN [kind |-> "Anomaly", source |-> watcher.source, base |-> watcher.local_path]
          ELSE IF map[watcher.source] # NoWorker
          THEN [kind |-> "Ignore", source |-> watcher.source, base |-> watcher.local_path]
          ELSE [kind |-> "Dispatch", source |-> watcher.source, base |-> watcher.local_path]

\* what the body of the `for result in results` loop decides for one event,
\* with the config it reads and the answer local_path.exists() gives when it
\* is called for the event
Outcome(cfg, exists, ev) ==
  IF Len(ev.paths) = 0
  THEN [kind |-> "Ignore", source |-> "none", base |-> <<>>]
  ELSE LET watcher == get_source_by_path(cfg, ev.paths[1])
       IN IF watcher = NoWatcher
          THEN [kind |-> "Ignore", source |-> "none", base |-> <<>>]
          ELSE IF ~watcher.complete
          THEN [kind |-> "Ignore", source |-> watcher.source, base |-> watcher.local_path]
          ELSE IF ~exists
          THEN [kind |-> "Anomaly", source |-> watcher.source, base |-> watcher.local_path]
          ELSE IF watcher.source \notin cfg.sources
          THEN [kind |-> "Anomaly", source |-> watcher.source, base |-> watcher.local_path]
          ELSE [kind |-> "Dispatch", source |-> watcher.source, base |-> watcher.local_path]

\* mutant of RoutingConfig: the loop body reads the shared config
RoutingConfigLive == config

\* the answers local_path.exists() can give while an event is handled: the
\* matched root is on the disk or not; no root is looked at when none matched
ExistsAnswers(cfg, ev) ==
  IF Len(ev.paths) = 0 THEN {TRUE}
  ELSE IF get_source_by_path(cfg, ev.paths[1]) = NoWatcher THEN {TRUE}
  ELSE BOOLEAN

\* the config the loop body reads: the snapshot taken at line 57
RoutingConfig == snap

\* mutant of EventAt: the batch is walked from its end
EventAtReversed(k) == results[Len(results) + 1 - k]

\* `for result in results`: the k-th iteration handles the k-th event
EventAt(k) == results[k]

\* where the callback goes once event k of the batch has been handled
AfterEvent(k) == IF k >= Len(results) THEN "reap" ELSE "route"

\* -------------------------------------------------------------- Init
NoPending == [watchers |-> <<>>, sources |-> {}, active |-> FALSE]
\* no invocation of the callback before this one
NoInvocation == [kind |-> "none", no |-> 0, results |-> <<>>,
                 snap |-> [watchers |-> <<>>, sources |-> {}],
                 outcomes |-> <<>>, revalidations |-> 0]
\* the previous invocation is not recorded
Untracked == [NoInvocation EXCEPT !.kind = "untracked"]
\* the record of an invocation that ends, kept where invocations are recorded
Remember(p, rec) == IF p.kind = "untracked" THEN p ELSE rec
EmptyConfig == [watchers |-> <<>>, sources |-> {}]

\* the state when listen has built the debouncer: line 51 makes the map empty
Start ==
  /\ config \in ConfigJSON
  /\ lock = "free"
  /\ pc = "idle"
  /\ results = <<>>
  /\ snap = EmptyConfig
  /\ should_revalidate = FALSE
  /\ i = 0
  /\ map = [s \in SourceIds |-> NoWorker]
  /\ fresh = NoWorker
  /\ keys = {}
  /\ busy = [s \in SourceIds |-> FALSE]
  /\ apiPending = NoPending
  /\ apiCalls = 0
  /\ committed = config
  /\ batchNo = 0
  /\ outcomes = <<>>
  /\ sends = <<>>
  /\ creations = {}
  /\ reaps = {}
  /\ revalidations = 0
  /\ snapshots = 0
  /\ trace = <<>>

Init ==
  /\ Start
  /\ prev = Untracked

\* the same start, with the previous invocation recorded from then on
InitHist ==
  /\ Start
  /\ prev = NoInvocation

\* ------------------------------------------------ the debouncer callback
\* mutant of CallbackGuard: the callback is entered while an invocation runs
CallbackAnytime == TRUE

\* the debouncer invokes the callback on its one thread and block_on keeps
\* that thread until the async block ends: the previous invocation has returned
CallbackGuard == pc = "idle"

\* the debouncer invokes the callback with Ok(results)

ReceiveBatch ==
  /\ CallbackGuard
  /\ batchNo < MaxBatches
  /\ \E b \in Batches : results' = b
  /\ batchNo' = batchNo + 1
  /\ pc' = "lock"
  /\ UNCHANGED <<config, lock, snap, should_revalidate, i, map, fresh, keys,
                 busy, apiVars>>
  /\ UNCHANGED histVars
  /\ UNCHANGED prev

\* mutant of OnError: an Err(..) is handled like an empty batch
OnErrorProcess == "lock"

\* line 56: `if let Ok(results) = results` fails for Err(..) and there is no
\* else branch, the async block ends
OnError == "idle"

\* the debouncer invokes the callback with Err(..): `if let Ok(results)` fails
\* and the callback returns at once
ReceiveError ==
  /\ CallbackGuard
  /\ batchNo < MaxBatches
  /\ batchNo' = batchNo + 1
  /\ pc' = OnError
  /\ prev' = Remember(prev, [NoInvocation EXCEPT !.kind = "error", !.no = batchNo + 1])
  /\ UNCHANGED <<config, lock, results, snap, should_revalidate, i, map,
                 fresh, keys, busy, apiVars>>
  /\ UNCHANGED histVars

\* main_watcher_config.lock().await
LockForSnapshot ==
  /\ pc = "lock"
  /\ lock = "free"
  /\ lock' = "driver"
  /\ pc' = "get_main"
  /\ UNCHANGED <<config, results, snap, should_revalidate, i, map, fresh, keys,
                 busy, apiVars, batchNo>>
  /\ UNCHANGED histVars
  /\ UNCHANGED prev

\* mutant of GuardDropped: the MutexGuard lives on after the statement
GuardHeld == "driver"

\* lines 57 and 105: the MutexGuard is a temporary of the statement and is
\* dropped at its end, which frees the config lock
GuardDropped == "free"

\* mutant of FlagAtStart: the flag starts raised
FlagAtStartRaised == TRUE

\* line 59: `let mut should_revalidate = false`, a local of the invocation
FlagAtStart == FALSE

\* .get_main().await; the guard is dropped at the end of the statement
GetMain ==
  /\ pc = "get_main"
  /\ snap' = config
  /\ lock' = GuardDropped
  /\ should_revalidate' = FlagAtStart
  /\ i' = 1
  /\ pc' = AfterEvent(0)
  /\ keys' = IF AfterEvent(0) = "reap" THEN {s \in SourceIds : map[s] # NoWorker} ELSE {}
  /\ snapshots' = snapshots + 1
  /\ trace' = Append(trace, "snapshot")
  /\ UNCHANGED <<config, results, map, fresh, busy, apiVars, batchNo,
                 outcomes, sends, creations, reaps, revalidations>>
  /\ UNCHANGED prev

\* mutant of AfterSkip: an anomaly leaves the loop (break for continue)
AfterSkipBreak(kind, k) == IF kind = "Anomaly" THEN "reap" ELSE AfterEvent(k)

\* `continue` at lines 65, 70, 75, 80 and 86: the loop goes on with the next
\* event, whether event k was ignored or an anomaly
AfterSkip(kind, k) == AfterEvent(k)

\* lines 63-91 for event i: the checks, and for a dispatchable event the
\* argument of or_insert, which Rust evaluates before or_insert runs
RouteEvent ==
  /\ pc = "route"
  /\ \E exists \in ExistsAnswers(RoutingConfig, EventAt(i)) :
     LET o == Outcome(RoutingConfig, exists, EventAt(i))
     IN /\ outcomes' = Append(outcomes, [kind |-> o.kind, source |-> o.source,
                                         base |-> o.base, exists |-> exists])
        /\ IF o.kind = "Dispatch"
           THEN /\ fresh' = NewWorker(o.source, batchNo, i)
                /\ creations' = creations \cup
                     {[idx |-> i, src |-> o.source, present |-> map[o.source] # NoWorker]}
                /\ pc' = "insert"
                /\ UNCHANGED <<should_revalidate, i, keys>>
           ELSE /\ should_revalidate' = (should_revalidate \/ o.kind = "Anomaly")
                /\ i' = i + 1
                /\ pc' = AfterSkip(o.kind, i)
                /\ keys' = IF AfterSkip(o.kind, i) = "reap"
                           THEN {s \in SourceIds : map[s] # NoWorker} ELSE {}
                /\ UNCHANGED <<fresh, creations>>
  /\ UNCHANGED <<config, lock, results, snap, map, busy, apiVars,
                 batchNo, sends, reaps, revalidations, snapshots, trace>>
  /\ UNCHANGED prev

\* mutant of OrInsert: insert for or_insert, the new worker takes the entry
OrInsertReplace(m, s, w) == [m EXCEPT ![s] = w]

\* HashMap::entry(source_id).or_insert(worker): keeps the entry that is there,
\* the argument is dropped; otherwise the argument becomes the entry
OrInsert(m, s, w) == IF m[s] = NoWorker THEN [m EXCEPT ![s] = w] ELSE m

\* EventProcessingDebounce::send: the event joins the queue of the worker,
\* which has work from then on
Send(r, s, e) == [r EXCEPT ![s] = TRUE]

\* lines 89-95 for event i: or_insert, then debounce.send(..).await
InsertSend ==
  /\ pc = "insert"
  /\ LET s == fresh.src
         o == outcomes[i]
         m == OrInsert(map, s, fresh)
         e == [event |-> EventAt(i), base |-> o.base]
     IN /\ map' = m
        /\ busy' = Send(busy, s, e)
        /\ sends' = Append(sends, [batch |-> batchNo, idx |-> i, src |-> s,
                                   event |-> e.event, base |-> e.base, worker |-> m[s]])
        /\ keys' = IF AfterEvent(i) = "reap"
                   THEN {k \in SourceIds : m[k] # NoWorker} ELSE {}
  /\ fresh' = NoWorker
  /\ i' = i + 1
  /\ pc' = AfterEvent(i)
  /\ trace' = Append(trace, "send")
  /\ UNCHANGED <<config, lock, results, snap, should_revalidate,
                 apiVars, batchNo, outcomes, creations, reaps, revalidations,
                 snapshots>>
  /\ UNCHANGED prev

\* mutant of Removes: the test of line 99 without its negation
RemovesRunning(running) == running

\* mutant of Removes: the sweep removes every entry it visits
RemovesAlways(running) == TRUE

\* whether the sweep removes an entry whose is_running() answered `running`
Removes(running) == ~running

\* lines 98-102 for one key of the collected Vec: is_running().await, remove
ReapOne ==
  /\ pc = "reap"
  /\ keys # {}
  /\ \E s \in keys :
       LET running == is_running(s)
       IN /\ map' = IF Removes(running) THEN [map EXCEPT ![s] = NoWorker] ELSE map
          /\ reaps' = reaps \cup {[src |-> s, running |-> running, worker |-> map[s]]}
          /\ keys' = keys \ {s}
  /\ trace' = Append(trace, "reap")
  /\ UNCHANGED <<config, lock, pc, results, snap, should_revalidate, i, fresh,
                 busy, apiVars, batchNo, outcomes, sends, creations,
                 revalidations, snapshots>>
  /\ UNCHANGED prev

\* mutant of AfterReap: the flag is not acted on
AfterReapSkip(flag) == "done"

\* line 104: `if should_revalidate`
AfterReap(flag) == IF flag THEN "revalidate" ELSE "done"

\* the sweep is over
ReapDone ==
  /\ pc = "reap"
  /\ keys = {}
  /\ pc' = AfterReap(should_revalidate)
  /\ UNCHANGED <<config, lock, results, snap, should_revalidate, i, map, fresh,
                 keys, busy, apiVars, batchNo>>
  /\ UNCHANGED histVars
  /\ UNCHANGED prev

\* SherryConfig::revalidate: drops the watchers whose local_path is gone from
\* the disk or whose source is not registered
Revalidated(cfg, dsk) ==
  LET keep(w) == w.local_path \in dsk /\ w.source \in cfg.sources
  IN [cfg EXCEPT !.watchers = SelectSeq(cfg.watchers, keep)]

\* main_watcher_config.lock().await of line 105
LockForRevalidate ==
  /\ pc = "revalidate"
  /\ lock = "free"
  /\ lock' = "driver"
  /\ pc' = "revalidating"
  /\ UNCHANGED <<config, results, snap, should_revalidate, i, map, fresh, keys,
                 busy, apiVars, batchNo>>
  /\ UNCHANGED histVars
  /\ UNCHANGED prev

\* .revalidate().await of line 105; the guard is dropped after it
Revalidate ==
  /\ pc = "revalidating"
  /\ \E dsk \in DiskStates :
       /\ config' = Revalidated(config, dsk)
       /\ committed' = Revalidated(config, dsk)
  /\ lock' = GuardDropped
  /\ pc' = "done"
  /\ revalidations' = revalidations + 1
  /\ trace' = Append(trace, "revalidate")
  /\ UNCHANGED <<results, snap, should_revalidate, i, map, fresh, keys, busy,
                 apiPending, apiCalls, batchNo, outcomes, sends, creations,
                 reaps, snapshots>>
  /\ UNCHANGED prev

\* the callback returns: its locals are gone, the map stays
Return ==
  /\ pc = "done"
  /\ pc' = "idle"
  /\ results' = <<>>
  /\ snap' = EmptyConfig
  /\ should_revalidate' = FALSE
  /\ i' = 0
  /\ outcomes' = <<>>
  /\ sends' = <<>>
  /\ creations' = {}
  /\ reaps' = {}
  /\ revalidations' = 0
  /\ snapshots' = 0
  /\ trace' = <<>>
  /\ prev' = Remember(prev, [kind |-> "batch", no |-> batchNo, results |-> results,
                              snap |-> snap, outcomes |-> outcomes,
                              revalidations |-> revalidations])
  /\ UNCHANGED <<config, lock, map, fresh, keys, busy, apiVars,
                 batchNo>>

\* ------------------------------------------------------ the source workers
\* the queue of a worker has drained and its last action has ended: the
\* worker is not running any more
WorkerDrained(s) ==
  /\ busy[s]
  /\ busy' = [busy EXCEPT ![s] = FALSE]
  /\ UNCHANGED <<config, lock, map, apiVars, batchNo>>
  /\ UNCHANGED driverVars
  /\ UNCHANGED histVars
  /\ UNCHANGED prev

\* -------------------------------------------------- the configuration API
\* the configs an API call can install from cfg: a source added with its
\* watcher, a source removed with its watchers, a watcher's initial sync done
ApiTargets(cfg) ==
  {[watchers |-> Append(cfg.watchers, w), sources |-> cfg.sources \cup {w.source}] :
     w \in {x \in WatcherJSON :
              /\ Len(cfg.watchers) < MaxWatchers
              /\ \A k \in 1..Len(cfg.watchers) : cfg.watchers[k].local_path # x.local_path}}
  \cup
  {[watchers |-> SelectSeq(cfg.watchers, LAMBDA w : w.source # s),
    sources |-> cfg.sources \ {s}] : s \in cfg.sources}
  \cup
  {[cfg EXCEPT !.watchers[k].complete = TRUE] : k \in 1..Len(cfg.watchers)}

\* an API call takes the config lock and writes the watchers
ApiBegin ==
  /\ lock = "free"
  /\ ~apiPending.active
  /\ apiCalls < MaxApiCalls
  /\ apiCalls' = apiCalls + 1
  /\ \E t \in ApiTargets(config) \ {config} :
       /\ apiPending' = [watchers |-> t.watchers, sources |-> t.sources, active |-> TRUE]
       /\ config' = [config EXCEPT !.watchers = t.watchers]
  /\ lock' = "api"
  /\ UNCHANGED <<map, busy, batchNo, committed>>
  /\ UNCHANGED driverVars
  /\ UNCHANGED histVars
  /\ UNCHANGED prev

\* the API call writes the sources and releases the lock
ApiCommit ==
  /\ lock = "api"
  /\ apiPending.active
  /\ config' = [config EXCEPT !.sources = apiPending.sources]
  /\ committed' = [config EXCEPT !.sources = apiPending.sources]
  /\ apiPending' = NoPending
  /\ lock' = "free"
  /\ UNCHANGED apiCalls
  /\ UNCHANGED <<map, busy, batchNo>>
  /\ UNCHANGED driverVars
  /\ UNCHANGED histVars
  /\ UNCHANGED prev

\* ------------------------------------------------------ the specification
Next ==
  \/ ReceiveBatch
  \/ ReceiveError
  \/ LockForSnapshot
  \/ GetMain
  \/ RouteEvent
  \/ InsertSend
  \/ ReapOne
  \/ ReapDone
  \/ LockForRevalidate
  \/ Revalidate
  \/ Return
  \/ \E s \in SourceIds : WorkerDrained(s)

Spec == Init /\ [][Next]_vars

\* the same program with the previous invocation recorded
SpecHist == InitHist /\ [][Next]_vars

\* EventProcessingDebounce::new fails for event i, a dispatchable event.  Line
\* 91 hands the value of new(..) straight to or_insert: there is no Result to
\* test and no branch for a failure, which can only leave new(..) as a panic.
\* It unwinds through the for loop and the async block: nothing is inserted
\* or sent, the flag is not touched, and the callback does not go on.
CreationFails ==
  /\ pc = "route"
  /\ \E exists \in ExistsAnswers(RoutingConfig, EventAt(i)) :
       LET o == Outcome(RoutingConfig, exists, EventAt(i))
       IN /\ o.kind = "Dispatch"
          /\ outcomes' = Append(outcomes, [kind |-> "CreateFailed", source |-> o.source,
                                           base |-> o.base, exists |-> exists])
          /\ creations' = creations \cup
               {[idx |-> i, src |-> o.source, present |-> map[o.source] # NoWorker]}
  /\ pc' = "panicked"
  /\ UNCHANGED <<config, lock, results, snap, should_revalidate, i, map, fresh,
                 keys, busy, apiVars, batchNo, sends, reaps, revalidations,
                 snapshots, trace, prev>>

\* the program when worker creation can fail
NextFail ==
  \/ Next
  \/ CreationFails

SpecFail == Init /\ [][NextFail]_vars

\* the callback with the configuration API running beside it
NextApi ==
  \/ ReceiveBatch
  \/ ReceiveError
  \/ LockForSnapshot
  \/ GetMain
  \/ RouteEvent
  \/ InsertSend
  \/ ReapOne
  \/ ReapDone
  \/ LockForRevalidate
  \/ Revalidate
  \/ Return
  \/ ApiBegin
  \/ ApiCommit

SpecApi == Init /\ [][NextApi]_vars

\* ================================================================ claims
\* the watchers of cfg whose local_path lies above path
Above(cfg, path) ==
  {j \in 1..Len(cfg.watchers) : StartsWith(path, cfg.watchers[j].local_path)}

\* the watchers of cfg above path with the longest local_path
Innermost(cfg, path) ==
  {j \in Above(cfg, path) :
     \A k \in Above(cfg, path) :
       Len(cfg.watchers[k].local_path) <= Len(cfg.watchers[j].local_path)}

\* the worker instances for source s that exist: the map's entry and the
\* argument of or_insert while it is alive
LiveWorkers(s) ==
  {w \in {map[s], fresh} : w # NoWorker /\ w.src = s}

\* event k of the batch has been handled completely
Handled(k) == k < i

\* the batch has left the `for result in results` loop
LoopDone == pc \in {"reap", "revalidate", "revalidating", "done"}

\* C1: when the snapshot holds two nested watcher roots, in either order, an
\* event whose first path lies under the inner root is sent with the inner
\* mapping's source_id and base, never the outer one's.
C1_NestedRoutesToInner ==
  \A n \in 1..Len(sends) :
    LET path == sends[n].event.paths[1]
    IN Cardinality(Above(snap, path)) >= 2 =>
         \A j \in Innermost(snap, path) :
           /\ sends[n].base = snap.watchers[j].local_path
           /\ sends[n].src = snap.watchers[j].source

\* C2: at every moment there is at most one constructed worker instance per
\* source_id, whether or not it is in the dispatch table.
C2_AtMostOneLiveWorker ==
  \A s \in SourceIds : Cardinality(LiveWorkers(s)) <= 1

\* C3: EventProcessingDebounce::new is invoked for a source_id only when the
\* dispatch table has no entry for it; an existing entry is reused without
\* any worker creation.
C3_CreateOnlyWhenAbsent ==
  \A c \in creations : ~c.present

\* the number of events of the batch handled completely
NumHandled == IF i = 0 THEN 0 ELSE i - 1

\* event k of the batch routes to source s: the snapshot and the disk as it
\* was when the event was handled make it dispatchable to s
Routes(k, s) ==
  LET o == Outcome(snap, outcomes[k].exists, results[k])
  IN o.kind = "Dispatch" /\ o.source = s

\* the indices, in batch order, of the handled events that route to s
RoutedIdx(s) ==
  SelectSeq([k \in 1..NumHandled |-> k], LAMBDA k : Routes(k, s))

\* the send calls of this batch made to the worker of s, in order
SentTo(s) == SelectSeq(sends, LAMBDA x : x.src = s)

C4_SendsAreRoutedSubsequence ==
  \A s \in SourceIds :
    /\ [n \in 1..Len(SentTo(s)) |-> SentTo(s)[n].idx] = RoutedIdx(s)
    /\ \A n \in 1..Len(SentTo(s)) :
         /\ SentTo(s)[n].event = results[SentTo(s)[n].idx]
         /\ SentTo(s)[n].batch = batchNo

C4_SendsStep ==
  /\ batchNo' >= batchNo
  /\ sends' # sends =>
       \/ sends' = <<>>
       \/ /\ batchNo' = batchNo
          /\ Len(sends') = Len(sends) + 1
          /\ SubSeq(sends', 1, Len(sends)) = sends
          /\ sends'[Len(sends')].batch = batchNo

\* C4: for every batch and source, the events handed to the source's worker
\* by send are exactly the events of the batch that route to that source, in
\* batch order; every send belongs to the batch in progress and the batch
\* number never goes back, so the sends of one batch precede the next one's.
C4_OrderPreserved ==
  [](C4_SendsAreRoutedSubsequence) /\ [][C4_SendsStep]_vars

\* two different events of the second batch were sent, in order, to one worker
C4_Witness ==
  /\ pc = "done"
  /\ batchNo = 2
  /\ Len(sends) = 2
  /\ sends[1].src = sends[2].src
  /\ sends[1].event # sends[2].event

\* the sweep of this batch has visited every key
SweepDone == pc \in {"revalidate", "revalidating", "done"}

C5_SweepResult ==
  /\ \A r \in reaps :
       /\ ~r.running => map[r.src] = NoWorker
       /\ r.running => map[r.src] = r.worker
  /\ SweepDone =>
       \A s \in SourceIds : map[s] # NoWorker => \E r \in reaps : r.src = s /\ r.running

C5_EntryStep ==
  \A s \in SourceIds :
    (map[s] # NoWorker /\ map'[s] # map[s]) =>
       /\ pc = "reap"
       /\ s \in keys
       /\ ~is_running(s)
       /\ map'[s] = NoWorker

\* C5: in the sweep that ends a batch, every entry of the dispatch table is
\* queried, and it is removed if and only if is_running() answered false; an
\* entry leaves the table in no other way, so a worker that answers true at
\* every sweep stays, batch after batch.
C5_ReapCorrect ==
  [](C5_SweepResult) /\ [][C5_EntryStep]_vars

\* the sweep of the second batch removed one entry and kept one made in batch 1
C5_Witness ==
  /\ pc = "done"
  /\ batchNo = 2
  /\ \E r \in reaps : ~r.running
  /\ \E r \in reaps : r.running /\ r.worker.batch = 1 /\ map[r.src] = r.worker

\* the watcher get_source_by_path finds for event k in the snapshot
Matched(k) ==
  IF Len(results[k].paths) = 0 THEN NoWatcher
  ELSE get_source_by_path(snap, results[k].paths[1])

\* event k matched a watcher whose initial sync is not complete
IncompleteEvent(k) == Matched(k) # NoWatcher /\ ~Matched(k).complete

\* event k matched a complete watcher whose local_path was missing when the
\* event was handled, or whose source is not in the snapshot's sources
AnomalyEvent(k) ==
  /\ Matched(k) # NoWatcher
  /\ Matched(k).complete
  /\ \/ ~outcomes[k].exists
     \/ Matched(k).source \notin snap.sources

\* C6: an event whose matched watcher has complete = false is never sent,
\* creates no worker and does not raise the revalidation flag, whatever the
\* disk and the registry say; a batch of such events only causes no send, no
\* worker creation and no revalidate call.
C6_IncompleteIgnored ==
  /\ \A k \in 1..Len(outcomes) :
       IncompleteEvent(k) =>
         /\ outcomes[k].kind = "Ignore"
         /\ \A n \in 1..Len(sends) : sends[n].idx # k
         /\ \A c \in creations : c.idx # k
  /\ should_revalidate => \E k \in 1..Len(outcomes) : ~IncompleteEvent(k)
  /\ (\A k \in 1..Len(outcomes) : IncompleteEvent(k)) =>
       /\ sends = <<>>
       /\ creations = {}
       /\ ~should_revalidate
       /\ revalidations = 0
       /\ pc \notin {"revalidate", "revalidating"}

\* a finished batch of two events under an incomplete watcher whose
\* local_path is missing and whose source is not registered
C6_Witness ==
  /\ pc = "done"
  /\ Len(outcomes) = 2
  /\ \A k \in 1..2 :
       /\ IncompleteEvent(k)
       /\ ~outcomes[k].exists
       /\ Matched(k).source \notin snap.sources

\* every event of the batch handled so far is an anomaly
OnlyAnomalies ==
  /\ Len(outcomes) >= 1
  /\ \A k \in 1..Len(outcomes) : AnomalyEvent(k)

\* C7: a batch in which every event is an anomaly never invokes worker
\* creation and ends with exactly one revalidate() call, made after the last
\* event and the sweep, however many anomalies it holds.
C7_AnomalyBatchRevalidatesOnce ==
  OnlyAnomalies =>
    /\ creations = {}
    /\ sends = <<>>
    /\ pc # "done" => revalidations = 0
    /\ LoopDone => should_revalidate
    /\ pc = "done" =>
         /\ revalidations = 1
         /\ Len(outcomes) = Len(results)
         /\ trace[Len(trace)] = "revalidate"
         /\ \A n \in 1..(Len(trace) - 1) : trace[n] # "revalidate"

\* a finished batch of two anomalies, one for a missing local_path and one
\* for a source that is not registered
C7_Witness ==
  /\ pc = "done"
  /\ Len(outcomes) = 2
  /\ OnlyAnomalies
  /\ \E k \in 1..2 : ~outcomes[k].exists
  /\ \E k \in 1..2 :
       /\ outcomes[k].exists
       /\ Matched(k).source \notin snap.sources

\* the place of a step in the order of a batch
Rank(step) ==
  CASE step = "snapshot" -> 0
    [] step = "send" -> 1
    [] step = "reap" -> 2
    [] step = "revalidate" -> 3

C8_StepOrder ==
  /\ \A a, b \in 1..Len(trace) :
       a < b =>
         /\ Rank(trace[a]) <= Rank(trace[b])
         /\ Rank(trace[a]) = Rank(trace[b]) => trace[a] \in {"send", "reap"}
  /\ trace # <<>> => trace[1] = "snapshot"
  /\ snapshots <= 1
  /\ pc = "idle" =>
       /\ trace = <<>>
       /\ lock # "driver"
       /\ fresh = NoWorker
       /\ keys = {}
  /\ pc = "done" =>
       /\ keys = {}
       /\ Len(outcomes) = Len(results)
       /\ should_revalidate <=> revalidations = 1

C8_BatchStep ==
  /\ batchNo' # batchNo => pc = "idle"
  /\ snapshots' > snapshots => (pc = "get_main" /\ trace = <<>>)
  /\ (pc' = "idle" /\ pc # "idle") => pc = "done"
  /\ (pc' = "done" /\ pc # "done") =>
       /\ keys = {}
       /\ pc = IF should_revalidate THEN "revalidating" ELSE "reap"

\* C8: batches are handled one at a time and in a fixed order of steps: the
\* snapshot, then every send, then the sweep, then revalidate; a batch is
\* received only when the previous invocation has returned, which happens
\* only after its sweep and, if the flag is set, its revalidate call.
C8_SequentialBatches ==
  [](C8_StepOrder) /\ [][C8_BatchStep]_vars

\* the second batch has sent an event, swept the map and revalidated
C8_Witness ==
  /\ pc = "done"
  /\ batchNo = 2
  /\ trace = <<"snapshot", "send", "reap", "revalidate">>

C9_DecisionsFromSnapshot ==
  /\ snapshots <= 1
  /\ \A k \in 1..Len(outcomes) :
       LET o == Outcome(snap, outcomes[k].exists, results[k])
       IN /\ outcomes[k].kind = o.kind
          /\ outcomes[k].source = o.source
          /\ outcomes[k].base = o.base
  /\ \A n \in 1..Len(sends) :
       /\ Matched(sends[n].idx).source = sends[n].src
       /\ Matched(sends[n].idx).local_path = sends[n].base
       /\ Matched(sends[n].idx).complete
       /\ sends[n].src \in snap.sources

C9_SnapshotStep ==
  snap' # snap =>
    \/ /\ pc = "get_main"
       /\ lock = "driver"
       /\ snap' = committed
    \/ /\ pc = "done"
       /\ snap' = EmptyConfig

\* C9: every routing decision of a batch (watcher match, complete flag,
\* registry lookup) is the one the snapshot gives, also when the shared config
\* is changed while the batch is handled; the snapshot is taken once, with
\* the config lock held, and is a config as some holder of the lock left it,
\* so its watchers and sources belong to one config state.
C9_SingleSnapshot ==
  [](C9_DecisionsFromSnapshot) /\ [][C9_SnapshotStep]_vars

\* an API call is rewriting the shared config while the batch has one event
\* handled and one to go, and the shared config would route that event
\* differently from the snapshot
C9_Witness ==
  /\ pc = "route"
  /\ i = 2
  /\ Len(outcomes) = 1
  /\ lock = "api"
  /\ config # snap
  /\ Outcome(config, TRUE, results[2]) # Outcome(snap, TRUE, results[2])

\* C10: an event whose first path lies under exactly one watcher root, that
\* root being complete, on disk and registered, is sent exactly once, to the
\* worker of that root's source_id, with base = the root's local_path; only
\* the first path counts, and an event without a path or without a root above
\* its first path is sent to no worker.
C10_SingleRootRouting ==
  \A k \in 1..NumHandled :
    LET ev == results[k]
        mine == {n \in 1..Len(sends) : sends[n].idx = k}
    IN IF Len(ev.paths) = 0 THEN mine = {}
       ELSE LET above == Above(snap, ev.paths[1])
            IN /\ above = {} => mine = {}
               /\ \A j \in above :
                    LET w == snap.watchers[j]
                    IN (/\ above = {j}
                        /\ w.complete
                        /\ outcomes[k].exists
                        /\ w.source \in snap.sources) =>
                         /\ Cardinality(mine) = 1
                         /\ \A n \in mine :
                              /\ sends[n].src = w.source
                              /\ sends[n].worker.src = w.source
                              /\ sends[n].base = w.local_path
                              /\ sends[n].event = ev

\* a finished batch: the first event has its first path under no root and its
\* second path under RootA and was not sent; the second event lies under
\* exactly one root of a snapshot with two roots and was sent
C10_Witness ==
  /\ pc = "done"
  /\ Len(results) = 2
  /\ results[1].paths = <<PathZ, PathAF>>
  /\ results[2].paths = <<PathAF>>
  /\ Len(snap.watchers) = 2
  /\ Cardinality(Above(snap, PathAF)) = 1
  /\ Len(sends) = 1
  /\ sends[1].idx = 2

\* the dispatchable events: matched, complete, on the disk and registered
DispatchEvent(k) ==
  /\ Matched(k) # NoWatcher
  /\ Matched(k).complete
  /\ outcomes[k].exists
  /\ Matched(k).source \in snap.sources

\* C11: in any batch, an event whose matched complete watcher has a missing
\* local_path, or whose source_id is not in the snapshot's sources, is never
\* sent to a worker and never makes a dispatch-table entry: no worker is built
\* for it and no entry of the table is a worker built for it; it raises the
\* revalidation flag of the batch and nothing else.
C11_AnomalyNeverDispatched ==
  \A k \in 1..Len(outcomes) :
    AnomalyEvent(k) =>
      /\ outcomes[k].kind = "Anomaly"
      /\ should_revalidate
      /\ \A n \in 1..Len(sends) : sends[n].idx # k
      /\ \A c \in creations : c.idx # k
      /\ fresh = NoWorker \/ fresh.batch # batchNo \/ fresh.idx # k
      /\ \A s \in SourceIds :
           map[s] = NoWorker \/ map[s].batch # batchNo \/ map[s].idx # k

\* a finished batch that mixes a dispatched event with an anomaly for a
\* source that is not registered, no entry being there for that source
C11_Witness ==
  /\ pc = "done"
  /\ Len(outcomes) = 2
  /\ DispatchEvent(1)
  /\ Len(sends) = 1
  /\ AnomalyEvent(2)
  /\ outcomes[2].exists
  /\ Matched(2).source \notin snap.sources
  /\ map[Matched(2).source] = NoWorker

\* the events of the batch are all handled and what was done for each is what
\* the event alone calls for, whatever came before it in the batch
C12_EveryEventHandled ==
  /\ LoopDone => Len(outcomes) = Len(results)
  /\ \A k \in 1..NumHandled :
       LET mine == {n \in 1..Len(sends) : sends[n].idx = k}
       IN IF DispatchEvent(k)
          THEN /\ Cardinality(mine) = 1
               /\ \A n \in mine :
                    /\ sends[n].src = Matched(k).source
                    /\ sends[n].base = Matched(k).local_path
                    /\ sends[n].event = results[k]
          ELSE mine = {}
  /\ SweepDone =>
       \A s \in SourceIds : map[s] # NoWorker => \E r \in reaps : r.src = s

\* an event that is not dispatched leaves the loop running and the table, the
\* workers and the sends as they were; the batch ends through the sweep only
C12_SkipStep ==
  /\ (Len(outcomes') = Len(outcomes) + 1 /\ outcomes'[Len(outcomes')].kind # "Dispatch") =>
       /\ pc' = AfterEvent(i)
       /\ i' = i + 1
       /\ map' = map
       /\ busy' = busy
       /\ fresh' = fresh
       /\ sends' = sends
  /\ (pc' \in {"revalidate", "done"} /\ pc \notin {"revalidate", "done"}) =>
       /\ pc \in {"reap", "revalidating"}
       /\ Len(outcomes) = Len(results)

\* C12: an anomaly does not abort the batch: every event after an anomalous or
\* ignored event is still routed, a dispatchable one is sent once to its
\* source's worker with its base as if the anomaly were not there, and the
\* sweep of the batch still runs.
C12_AnomalyDoesNotAbort ==
  [](C12_EveryEventHandled) /\ [][C12_SkipStep]_vars

\* a finished batch whose first event was an anomaly and whose second event
\* was sent, the sweep having visited the entry
C12_Witness ==
  /\ pc = "done"
  /\ Len(outcomes) = 2
  /\ AnomalyEvent(1)
  /\ DispatchEvent(2)
  /\ Len(sends) = 1
  /\ sends[1].idx = 2
  /\ \E r \in reaps : r.src = sends[1].src

\* the last invocation of the callback was given Err(..)
ErrorCycle == prev.kind = "error" /\ prev.no = batchNo

\* nothing of a cycle has happened in an invocation that was given Err(..)
C13_NothingDone ==
  ErrorCycle =>
    /\ pc = "idle"
    /\ lock # "driver"
    /\ snapshots = 0
    /\ outcomes = <<>>
    /\ sends = <<>>
    /\ creations = {}
    /\ fresh = NoWorker
    /\ reaps = {}
    /\ revalidations = 0
    /\ trace = <<>>

\* the step that delivers Err(..) leaves the table, the workers, the config
\* and its lock as they were
C13_ErrorStep ==
  (batchNo' # batchNo /\ prev'.kind = "error" /\ prev'.no = batchNo') =>
    /\ map' = map
    /\ busy' = busy
    /\ config' = config
    /\ lock' = lock
    /\ pc' = pc
    /\ snap' = snap
    /\ UNCHANGED histVars

\* C13: when the raw change source delivers an error instead of a batch the
\* cycle is skipped entirely: no snapshot, no routing, no send, no worker
\* creation, no sweep, no revalidate call, and the dispatch table is unchanged.
C13_ErrorSkipsCycle ==
  [](C13_NothingDone) /\ [][C13_ErrorStep]_vars

\* an Err(..) was delivered after a batch that left a running worker in the
\* table, and the entry is still there
C13_Witness ==
  /\ ErrorCycle
  /\ batchNo = 2
  /\ \E s \in SourceIds : map[s] # NoWorker /\ map[s].batch = 1 /\ busy[s]

\* this invocation is given the batch of the previous one and has taken the
\* same snapshot
SecondPass ==
  /\ prev.kind = "batch"
  /\ prev.no + 1 = batchNo
  /\ pc \in {"route", "insert", "reap", "revalidate", "revalidating", "done"}
  /\ prev.results = results
  /\ prev.snap = snap

\* C14: routing is idempotent: a batch processed twice against the same
\* snapshot and the same disk gives, event by event, the same outcome
\* (dispatch to the same source_id with the same base, ignore or anomaly)
\* both times, whatever the first pass left in the dispatch table.
C14_RoutingIdempotent ==
  SecondPass =>
    \A k \in 1..Len(outcomes) :
      outcomes[k].exists = prev.outcomes[k].exists =>
        /\ outcomes[k].kind = prev.outcomes[k].kind
        /\ outcomes[k].source = prev.outcomes[k].source
        /\ outcomes[k].base = prev.outcomes[k].base

\* the second pass over a batch of two events, one dispatched and one not,
\* has ended with the same disk, and the source it dispatched to had an entry
\* in the table that the first pass left
C14_Witness ==
  /\ SecondPass
  /\ pc = "done"
  /\ Len(outcomes) = 2
  /\ \A k \in 1..2 : outcomes[k].exists = prev.outcomes[k].exists
  /\ \E k \in 1..2 : outcomes[k].kind = "Dispatch"
  /\ \E k \in 1..2 : outcomes[k].kind # "Dispatch"
  /\ \E c \in creations : c.present

\* the sweep of this batch has not yet visited the entry of s
NotSwept(s) == pc \in {"route", "insert"} \/ (pc = "reap" /\ s \in keys)

\* C15: after N >= 1 dispatchable events for one source_id in a batch the
\* dispatch table holds one entry for it, and all N events were sent to that
\* entry's worker, the one in the table after the first event, and to no
\* other worker instance.
C15_OneEntryGetsAllEvents ==
  \A s \in SourceIds :
    Len(SentTo(s)) >= 1 =>
      /\ SentTo(s)[1].worker # NoWorker
      /\ SentTo(s)[1].worker.src = s
      /\ \A n \in 1..Len(SentTo(s)) : SentTo(s)[n].worker = SentTo(s)[1].worker
      /\ NotSwept(s) => map[s] = SentTo(s)[1].worker
      /\ map[s] \in {NoWorker, SentTo(s)[1].worker}

\* the second batch has sent two events to one source whose entry the first
\* batch made, and the loop is over with the entry in the table
C15_Witness ==
  /\ pc = "reap"
  /\ batchNo = 2
  /\ \E s \in SourceIds :
       /\ Len(SentTo(s)) = 2
       /\ SentTo(s)[1].worker.batch = 1
       /\ s \in keys
       /\ map[s] = SentTo(s)[2].worker

\* worker creation failed for event k of the batch
CreateFailed(k) == outcomes[k].kind = "CreateFailed"

C16_FailureIsLocal ==
  \A k \in 1..Len(outcomes) :
    CreateFailed(k) =>
      /\ \A n \in 1..Len(sends) : sends[n].idx # k
      /\ \A s \in SourceIds :
           map[s] = NoWorker \/ map[s].batch # batchNo \/ map[s].idx # k
      /\ should_revalidate => \E j \in 1..Len(outcomes) : outcomes[j].kind = "Anomaly"

C16_FailureStep ==
  (Len(outcomes') = Len(outcomes) + 1 /\ outcomes'[Len(outcomes')].kind = "CreateFailed") =>
    /\ pc' = AfterEvent(i)
    /\ i' = i + 1

\* C16: if worker creation fails for a source, the event is dropped for this
\* batch, no dispatch-table entry is left for the source, the failure does not
\* raise the revalidation flag, and the loop goes on with the remaining
\* events of the batch.
C16_CreationFailureSkipsEvent ==
  [](C16_FailureIsLocal) /\ [][C16_FailureStep]_vars

\* an event of the batch handled so far was an anomaly
SomeAnomaly == \E k \in 1..Len(outcomes) : AnomalyEvent(k)

C17_FlagOfThisBatch ==
  /\ revalidations <= 1
  /\ pc \in {"route", "insert", "reap", "done", "revalidate", "revalidating"} =>
       (should_revalidate <=> SomeAnomaly)
  /\ pc \in {"revalidate", "revalidating"} => (SomeAnomaly /\ revalidations = 0)
  /\ pc = "done" => (revalidations = 1 <=> SomeAnomaly)
  /\ pc \notin {"done"} => revalidations = 0

C17_RevalidateStep ==
  revalidations' > revalidations =>
    /\ pc = "revalidating"
    /\ Len(outcomes) = Len(results)
    /\ SomeAnomaly
    /\ revalidations = 0

\* C17: the revalidation flag belongs to one batch: revalidate() is called at
\* the end of a batch if and only if an event of that batch was an anomaly,
\* and at most once; a batch without anomaly never calls it, also when the
\* batch before raised the flag.
C17_FlagScopedToBatch ==
  [](C17_FlagOfThisBatch) /\ [][C17_RevalidateStep]_vars

\* a batch with a dispatched event and no anomaly has ended without a
\* revalidate call, right after a batch that had an anomaly and revalidated
C17_Witness ==
  /\ pc = "done"
  /\ batchNo = 2
  /\ prev.kind = "batch"
  /\ prev.revalidations = 1
  /\ \E k \in 1..Len(prev.outcomes) : prev.outcomes[k].kind = "Anomaly"
  /\ Len(outcomes) >= 1
  /\ ~SomeAnomaly
  /\ Len(sends) >= 1
  /\ revalidations = 0

\* a worker that still has work (events queued or an action in flight) is in
\* the table, and it is the worker the events of this batch were sent to
C18_BusyWorkerInTable ==
  \A s \in SourceIds :
    busy[s] =>
      /\ map[s] # NoWorker
      /\ map[s].src = s
      /\ \A n \in 1..Len(sends) : sends[n].src = s => map[s] = sends[n].worker

C18_RemoveStep ==
  \A s \in SourceIds :
    (map[s] # NoWorker /\ map'[s] = NoWorker) => (~busy[s] /\ ~busy'[s])

\* C18: reaping never loses work: with the workers running beside the batch
\* driver and reporting running while they have events queued or an action
\* in flight, no entry is removed while its worker holds an event that was
\* sent to it and is not processed; a worker that got an event in this batch
\* is not removed by this batch's sweep before it has processed the event.
C18_ReapLosesNoWork ==
  [](C18_BusyWorkerInTable) /\ [][C18_RemoveStep]_vars

\* the sweep of a batch has visited two entries: the worker that got an event
\* in this batch and still has it was kept, the one that had finished its
\* work was removed
C18_Witness ==
  /\ pc = "done"
  /\ \E s \in SourceIds :
       /\ Len(SentTo(s)) >= 1
       /\ busy[s]
       /\ map[s] = SentTo(s)[1].worker
       /\ \E r \in reaps : r.src = s /\ r.running
  /\ \E r \in reaps : ~r.running /\ map[r.src] = NoWorker

\* the driver holds the config lock exactly inside the two statements that
\* use the config, and is not the holder when it asks for the lock
C19_LockHeldForConfigOnly ==
  /\ lock = "driver" <=> pc \in {"get_main", "revalidating"}
  /\ pc \in {"lock", "revalidate"} => lock # "driver"
  /\ pc \in {"route", "insert", "reap"} => lock \in {"free", "api"}

C19_LockStep ==
  /\ (lock' = "driver" /\ lock # "driver") =>
       (lock = "free" /\ pc \in {"lock", "revalidate"})
  /\ (sends' # sends \/ reaps' # reaps \/ map' # map) => lock # "driver"
  /\ (lock = "driver" /\ lock' # "driver") => lock' = "free"

\* C19: the batch driver holds the shared config lock only while it takes the
\* snapshot and while revalidate runs: never while it sends an event to a
\* worker or asks is_running in the sweep, and it never asks for the lock
\* while it holds it; a config mutator can take the lock during sends and
\* liveness checks, and the driver cannot deadlock on its own lock.
C19_LockOnlyForSnapshotAndRevalidate ==
  [](C19_LockHeldForConfigOnly) /\ [][C19_LockStep]_vars

\* a config API call holds the lock while the driver, which has sent an event
\* of this batch and must revalidate later, is in the middle of the sweep
C19_Witness ==
  /\ pc = "reap"
  /\ keys # {}
  /\ Len(sends) >= 1
  /\ should_revalidate
  /\ lock = "api"

====
